---- MODULE Spec2Model ----
(***************************************************************************)
(* PhantomFrame: the embedding scheduler (WatermarkEncoder) and the        *)
(* detector composition (WatermarkExtractor).                              *)
(*                                                                         *)
(* Number representation                                                   *)
(*  - uint32 values that may be large (seed, frame_index, the QP hash) are *)
(*    pairs <<hi, lo>> of 16-bit halves, so that arithmetic modulo 2^32    *)
(*    can be written with integers that stay below 2^31.                   *)
(*  - block_density is a float; the model carries it in tenths (3 = 0.3f). *)
(*    For the totals and periods used here the float product and quotient  *)
(*    truncate to the same integer as the exact rational.                  *)
(*  - widths and heights are small naturals (width + 7 does not wrap).     *)
(***************************************************************************)
EXTENDS Integers, Sequences, FiniteSets, TLC

\* ------------------------------------------------------------------------
\* Bounds of the model
\* ------------------------------------------------------------------------
MaxProcessed == 1
MaxDetected == 2
MaxVideos == 1

\* ------------------------------------------------------------------------
\* Program constants
\* ------------------------------------------------------------------------
BlockSize == 8
HalfWord == 65536
DensityDen == 10

\* ------------------------------------------------------------------------
\* Inputs
\* ------------------------------------------------------------------------
Seeds == { <<0, 12345>>, <<65535, 65535>> }
Densities == { -5, 0, 3, 10, 15 }
Periods == { 0, 1, 30 }
Dimensions == { <<0, 0>>, <<0, 64>>, <<20, 0>>, <<20, 12>>, <<64, 64>> }
FrameIndices == { <<0, 0>>, <<65535, 65535>> }
Buffers == { <<>>, <<128, 7>> }
CastModes == { "wrap", "saturate" }

Configs == [seed : Seeds, block_density : Densities, temporal_period : Periods]

VARIABLES
    castMode,               \* how this build converts an out-of-range float to uint32
    config_, width_, height_, total_blocks_,
    block_indices_, current_block_index_,
    frames_processed_, blocks_modified_,
    ret,                    \* what the last encoder call returned
    memo                    \* an earlier getBlocksForFrame result under the present configuration

encVars == <<config_, width_, height_, total_blocks_, block_indices_,
             current_block_index_, frames_processed_, blocks_modified_, ret, memo>>

\* WatermarkExtractor
VARIABLES
    xconfig_,               \* WatermarkExtractor::config_
    initialized_, model_weights_,
    frames_analyzed_, videos_processed_, watermarks_detected_,
    xret                    \* the last extractor call: its argument and what it returned

extVars == <<xconfig_, initialized_, model_weights_, frames_analyzed_,
             videos_processed_, watermarks_detected_, xret>>

\* two threads that share one encoder without synchronisation
VARIABLES
    updater,                \* the thread inside updateConfig: position, old and new configuration
    caller                  \* the thread inside getBlocksForFrame / processFrame: position and locals

conVars == <<updater, caller>>

\* ------------------------------------------------------------------------
\* 32-bit words
\* ------------------------------------------------------------------------
Min(a, b) == IF a < b THEN a ELSE b

ToWord(n) == << n \div HalfWord, n % HalfWord >>

Add32(a, b) ==
    LET lo == a[2] + b[2]
        hi == a[1] + b[1] + (lo \div HalfWord)
    IN  << hi % HalfWord, lo % HalfWord >>

\* a * k modulo 2^32, for a multiplier k below 2^15
MulSmall32(a, k) ==
    LET lo == a[2] * k
        hi == a[1] * k + (lo \div HalfWord)
    IN  << hi % HalfWord, lo % HalfWord >>

\* 0 - k modulo 2^32, for 0 <= k < 2^16
Neg32(k) == IF k = 0 THEN <<0, 0>> ELSE << HalfWord - 1, HalfWord - k >>

\* a % n for a divisor 0 < n < 2^15
Mod32(a, n) == ((a[1] % n) * (HalfWord % n) + (a[2] % n)) % n

Pow2(k) == 2 ^ k

Shl32(a, k) ==
    LET lo == a[2] * Pow2(k)
        hi == a[1] * Pow2(k) + (lo \div HalfWord)
    IN  << hi % HalfWord, lo % HalfWord >>

Shr32(a, k) ==
    IF k >= 16 THEN << 0, a[1] \div Pow2(k - 16) >>
    ELSE << a[1] \div Pow2(k),
            (a[2] \div Pow2(k)) + (a[1] % Pow2(k)) * Pow2(16 - k) >>

RECURSIVE Xor16(_, _)
Xor16(a, b) ==
    IF a = 0 THEN b
    ELSE IF b = 0 THEN a
    ELSE (((a % 2) + (b % 2)) % 2) + 2 * Xor16(a \div 2, b \div 2)

Xor32(a, b) == << Xor16(a[1], b[1]), Xor16(a[2], b[2]) >>

\* the smaller of a word and a small natural, as a natural
MinWord(w, n) == IF w[1] > 0 \/ w[2] > n THEN n ELSE w[2]

\* blocks_x and blocks_y of initialize and getBlocksForFrame
blocks_x(width) == (width + 7) \div BlockSize
blocks_y(height) == (height + 7) \div BlockSize

\* ------------------------------------------------------------------------
\* generateBlockSelection
\* ------------------------------------------------------------------------
\* std::mt19937 seeded with config_.seed: a deterministic stream of words.
\* The stand-in generator is a linear congruential step on the 32-bit state.
RngNext(s) == Add32(MulSmall32(s, 25173), ToWord(13849))

RECURSIVE ShuffleFrom(_, _, _)
\* std::shuffle: position i (0-based) is swapped with a drawn position in [0, i]
ShuffleFrom(v, i, s) ==
    IF i >= Len(v) THEN v
    ELSE LET s1 == RngNext(s)
             j  == s1[1] % (i + 1)
             w  == [v EXCEPT ![i + 1] = v[j + 1], ![j + 1] = v[i + 1]]
         IN  ShuffleFrom(w, i + 1, s1)

ShuffleDirect(v, seed) == ShuffleFrom(v, 1, seed)

\* the shuffles of the index vectors the encoder builds, computed once
ShuffleTable ==
    [ p \in { << [i \in 1..(blocks_x(d[1]) * blocks_y(d[2])) |-> i - 1], s >> :
                 d \in Dimensions, s \in Seeds }
        |-> ShuffleDirect(p[1], p[2]) ]

Shuffle(v, seed) ==
    IF <<v, seed>> \in DOMAIN ShuffleTable THEN ShuffleTable[<<v, seed>>]
    ELSE ShuffleDirect(v, seed)

\* the loop that pushes 0 .. total-1 onto the vector
PushIndices(v, total) == v \o [i \in 1..total |-> i - 1]

\* a generateBlockSelection that forgets block_indices_.clear()
GenerateBlockSelectionNoClear(this) ==
    Shuffle(PushIndices(this.block_indices_, this.total_blocks_), this.config_.seed)

\* a generateBlockSelection that reshuffles the vector it already holds
GenerateBlockSelectionIncremental(this) ==
    IF Len(this.block_indices_) = this.total_blocks_
    THEN ShuffleDirect(this.block_indices_, this.config_.seed)
    ELSE Shuffle(PushIndices(<<>>, this.total_blocks_), this.config_.seed)

\* the new block_indices_ (current_block_index_ is reset by the caller below)
generateBlockSelection(this) ==
    LET cleared == <<>>
    IN  Shuffle(PushIndices(cleared, this.total_blocks_), this.config_.seed)

\* ------------------------------------------------------------------------
\* calculateQPDelta
\* ------------------------------------------------------------------------
\* a calculateQPDelta that maps the hash onto five levels
CalculateQPDeltaWide(this, block_index, frame_index) ==
    LET h0  == Add32(Add32(MulSmall32(ToWord(block_index), 31),
                           MulSmall32(frame_index, 17)), this.config_.seed)
        h1  == Shr32(Xor32(Shl32(h0, 13), h0), 19)
    IN  Mod32(h1, 5) - 2

calculateQPDelta(this, block_index, frame_index) ==
    LET h0  == Add32(Add32(MulSmall32(ToWord(block_index), 31),
                           MulSmall32(frame_index, 17)), this.config_.seed)
        h1  == Shr32(Xor32(Shl32(h0, 13), h0), 19)
        mod == Mod32(h1, 3)
    IN  IF mod = 0 THEN -1 ELSE IF mod = 1 THEN 0 ELSE 1

\* ------------------------------------------------------------------------
\* getBlocksForFrame
\* ------------------------------------------------------------------------
\* static_cast<uint32_t>(total_blocks_ * block_density / temporal_period).
\* The conversion is undefined when the truncated value is not a uint32
\* (negative, infinite or NaN); the outcome is then the one of the build's
\* conversion instruction: "wrap" keeps the low 32 bits of a 64-bit signed
\* conversion (x86-64), "saturate" clamps to the uint32 range (AArch64).
CastToU32(total, density, period, mode) ==
    LET num == total * density IN
    IF period = 0 THEN
        IF num > 0 /\ mode = "saturate" THEN << HalfWord - 1, HalfWord - 1 >>
        ELSE <<0, 0>>
    ELSE IF num < 0 THEN
        LET k == (-num) \div (DensityDen * period) IN
        IF mode = "wrap" THEN Neg32(k) ELSE <<0, 0>>
    ELSE ToWord(num \div (DensityDen * period))

\* a blocks_per_frame reduced modulo total_blocks_ instead of capped
BlocksPerFrameWrapped(total, density, period, mode) ==
    IF total = 0 THEN 0
    ELSE Mod32(CastToU32(total, density, period, mode), total)

\* blocks_per_frame after std::min(blocks_per_frame, total_blocks_)
blocksPerFrame(total, density, period, mode) ==
    MinWord(CastToU32(total, density, period, mode), total)

\* a selection loop that splits the index by the number of block rows
BlockAtTransposed(this, i, frame_index) ==
    LET block_idx == Mod32(Add32(frame_index, ToWord(i * this.config_.temporal_period)),
                           this.total_blocks_)
        by == blocks_y(this.height_)
    IN  [ x |-> (block_idx % by) * BlockSize,
          y |-> (block_idx \div by) * BlockSize,
          qp_delta |-> calculateQPDelta(this, block_idx, frame_index),
          frame_index |-> frame_index ]

\* a selection loop that advances by one block per iteration
BlockAtUnitStride(this, i, frame_index) ==
    LET block_idx == Mod32(Add32(frame_index, ToWord(i)), this.total_blocks_)
        bx == blocks_x(this.width_)
    IN  [ x |-> (block_idx % bx) * BlockSize,
          y |-> (block_idx \div bx) * BlockSize,
          qp_delta |-> calculateQPDelta(this, block_idx, frame_index),
          frame_index |-> frame_index ]

\* one iteration of the selection loop
BlockAt(this, i, frame_index) ==
    LET block_idx == Mod32(Add32(frame_index, ToWord(i * this.config_.temporal_period)),
                           this.total_blocks_)
        bx == blocks_x(this.width_)
    IN  [ x |-> (block_idx % bx) * BlockSize,
          y |-> (block_idx \div bx) * BlockSize,
          qp_delta |-> calculateQPDelta(this, block_idx, frame_index),
          frame_index |-> frame_index ]

\* a getBlocksForFrame that starts from a position remembered across calls
GetBlocksFromCursor(this, frame_index) ==
    LET n == blocksPerFrame(this.total_blocks_, this.config_.block_density,
                            this.config_.temporal_period, this.castMode)
        start == Add32(frame_index, ToWord(this.frames_processed_))
    IN  [ i \in 1..n |-> [BlockAt(this, i - 1, start) EXCEPT !.frame_index = frame_index] ]

\* a getBlocksForFrame whose loop runs while i <= blocks_per_frame
GetBlocksOneMore(this, frame_index) ==
    LET n == blocksPerFrame(this.total_blocks_, this.config_.block_density,
                            this.config_.temporal_period, this.castMode)
    IN  IF this.total_blocks_ = 0 THEN <<>>
        ELSE [ i \in 1..(n + 1) |-> BlockAt(this, i - 1, frame_index) ]

\* a getBlocksForFrame that always selects at least one block
GetBlocksAtLeastOne(this, frame_index) ==
    LET n == blocksPerFrame(this.total_blocks_, this.config_.block_density,
                            this.config_.temporal_period, this.castMode)
    IN  IF this.total_blocks_ = 0
        THEN << [ x |-> 0, y |-> 0, qp_delta |-> 0, frame_index |-> frame_index ] >>
        ELSE [ i \in 1..(IF n = 0 THEN 1 ELSE n) |-> BlockAt(this, i - 1, frame_index) ]

getBlocksForFrame(this, frame_index) ==
    LET n == blocksPerFrame(this.total_blocks_, this.config_.block_density,
                            this.config_.temporal_period, this.castMode)
    IN  [ i \in 1..n |-> BlockAt(this, i - 1, frame_index) ]

\* ------------------------------------------------------------------------
\* Encoder state machine
\* ------------------------------------------------------------------------
\* the encoder object as the member functions see it
Encoder ==
    [ castMode |-> castMode, config_ |-> config_, width_ |-> width_, height_ |-> height_,
      total_blocks_ |-> total_blocks_, block_indices_ |-> block_indices_,
      current_block_index_ |-> current_block_index_,
      frames_processed_ |-> frames_processed_, blocks_modified_ |-> blocks_modified_ ]

NoMemo == [valid |-> FALSE, frame |-> <<0, 0>>, blocks |-> <<>>, at |-> 0]

\* what a call left behind: its frame index, the instructions it produced,
\* the buffer it returned (out) and the caller's buffer after the call (data)
Ret(op, ok, frame, blocks, out) ==
    [op |-> op, ok |-> ok, frame |-> frame, blocks |-> blocks, out |-> out, data |-> <<>>]

\* WatermarkEncoder::WatermarkEncoder
EncInit ==
    /\ config_ \in Configs
    /\ width_ = 0
    /\ height_ = 0
    /\ total_blocks_ = 0
    /\ block_indices_ = <<>>
    /\ current_block_index_ = 0
    /\ frames_processed_ = 0
    /\ blocks_modified_ = 0
    /\ ret = Ret("constructor", TRUE, <<0, 0>>, <<>>, <<>>)
    /\ memo = NoMemo

\* WatermarkEncoder::initialize
initialize(width, height) ==
    LET total == blocks_x(width) * blocks_y(height) IN
    /\ width_' = width
    /\ height_' = height
    /\ total_blocks_' = total
    /\ block_indices_' = generateBlockSelection([Encoder EXCEPT !.total_blocks_ = total])
    /\ current_block_index_' = 0
    /\ ret' = Ret("initialize", TRUE, <<0, 0>>, <<>>, <<>>)
    /\ memo' = NoMemo
    /\ UNCHANGED <<config_, frames_processed_, blocks_modified_>>
    /\ UNCHANGED <<castMode, extVars, conVars>>

\* WatermarkEncoder::updateConfig
updateConfig(config) ==
    /\ config_' = config
    /\ block_indices_' = generateBlockSelection([Encoder EXCEPT !.config_ = config])
    /\ current_block_index_' = 0
    /\ ret' = Ret("updateConfig", TRUE, <<0, 0>>, <<>>, <<>>)
    /\ memo' = NoMemo
    /\ UNCHANGED <<width_, height_, total_blocks_,
                   frames_processed_, blocks_modified_>>
    /\ UNCHANGED <<castMode, extVars, conVars>>

\* a getBlocksForFrame call that counts the blocks it returns
GetBlocksCounting(frame_index) ==
    LET blocks == getBlocksForFrame(Encoder, frame_index)
    IN  /\ ret' = Ret("getBlocksForFrame", TRUE, frame_index, blocks, <<>>)
        /\ blocks_modified_' = blocks_modified_ + Len(blocks)
        /\ \/ memo' = [valid |-> TRUE, frame |-> frame_index, blocks |-> blocks,
                       at |-> frames_processed_]
           \/ memo' = memo
        /\ UNCHANGED <<config_, width_, height_, total_blocks_, block_indices_,
                       current_block_index_, frames_processed_>>
        /\ UNCHANGED <<castMode, extVars, conVars>>

\* a call of WatermarkEncoder::getBlocksForFrame by the user of the encoder;
\* memo keeps the result of some earlier call under the same configuration
GetBlocks(frame_index) ==
    LET blocks == getBlocksForFrame(Encoder, frame_index)
    IN  /\ ret' = Ret("getBlocksForFrame", TRUE, frame_index, blocks, <<>>)
        /\ \/ memo' = [valid |-> TRUE, frame |-> frame_index, blocks |-> blocks,
                       at |-> frames_processed_]
           \/ memo' = memo
        /\ UNCHANGED <<config_, width_, height_, total_blocks_, block_indices_,
                       current_block_index_, frames_processed_, blocks_modified_>>
        /\ UNCHANGED <<castMode, extVars, conVars>>

\* an applyQPModification that adds qp_delta to the byte at the block offset
ApplyQPModificationWrites(this, frame_data, block_info) ==
    LET block_offset == block_info.y * this.width_ + block_info.x
    IN  IF block_offset < this.width_ * this.height_ /\ block_offset < Len(frame_data)
        THEN [frame_data EXCEPT ![block_offset + 1] = (@ + block_info.qp_delta) % 256]
        ELSE frame_data

\* WatermarkEncoder::applyQPModification: computes block_offset, compares it
\* with width_ * height_ and writes nothing
applyQPModification(this, frame_data, block_info) ==
    frame_data

RECURSIVE ApplyBlocks(_, _, _, _)
\* the loop over the blocks of the frame, from block k on
ApplyBlocks(this, frame_data, blocks, k) ==
    IF k > Len(blocks) THEN frame_data
    ELSE ApplyBlocks(this, applyQPModification(this, frame_data, blocks[k]), blocks, k + 1)

\* WatermarkEncoder::processFrame on a non-null buffer
processFrame(frame_data, frame_index) ==
    LET blocks == getBlocksForFrame(Encoder, frame_index)
        modified_frame == ApplyBlocks(Encoder, frame_data, blocks, 1)
    IN  /\ frames_processed_ < MaxProcessed
        /\ blocks_modified_' = blocks_modified_ + Len(blocks)
        /\ frames_processed_' = frames_processed_ + 1
        /\ ret' = [Ret("processFrame", TRUE, frame_index, blocks, modified_frame)
                      EXCEPT !.data = frame_data]
        /\ UNCHANGED <<config_, width_, height_, total_blocks_, block_indices_,
                       current_block_index_, memo>>
        /\ UNCHANGED <<castMode, extVars, conVars>>

\* ------------------------------------------------------------------------
\* WatermarkExtractor: numbers
\* ------------------------------------------------------------------------
\* Feature values (doubles) are carried in sixteenths, so sums and products of
\* the inputs are exact; a product of two features is in 1/256.  Confidences
\* are carried in 1/1280 (0.8 = 1024, 0.7 = 896, 0.6 = 768, 0.5 = 640);
\* the model weights are carried in thousandths.
FeatureUnit == 16
ConfidenceUnit == 1280

RECURSIVE BytesOf(_, _)
\* the len low bytes of a natural, least significant first
BytesOf(n, len) == IF len = 0 THEN <<>> ELSE <<n % 256>> \o BytesOf(n \div 256, len - 1)

\* the len low bytes of -k (two's complement), for k > 0
NegBytesOf(k, len) == LET b == BytesOf(k - 1, len) IN [j \in 1..len |-> 255 - b[j]]

RECURSIVE Or8(_, _)
Or8(a, b) ==
    IF a = 0 THEN b
    ELSE IF b = 0 THEN a
    ELSE (IF (a % 2) + (b % 2) > 0 THEN 1 ELSE 0) + 2 * Or8(a \div 2, b \div 2)

OrBytes(a, b) == [j \in 1..Len(a) |-> Or8(a[j], b[j])]

\* value << (8 * i), truncated to the width of the value
ShlBytes(a, i) == [j \in 1..Len(a) |-> IF j - i >= 1 THEN a[j - i] ELSE 0]

\* static_cast<uintN_t>(feature * 255) as len bytes; the conversion of a value
\* that truncates below zero is undefined and follows the build's cast mode
CastFeatureByte(f, len, mode) ==
    IF f >= 0 THEN BytesOf((f * 255) \div FeatureUnit, len)
    ELSE LET k == ((-f) * 255) \div FeatureUnit IN
         IF k = 0 \/ mode = "saturate" THEN BytesOf(0, len) ELSE NegBytesOf(k, len)

RECURSIVE SumRange(_, _, _)
\* v[lo] + ... + v[hi], summed by halves
SumRange(v, lo, hi) ==
    IF lo > hi THEN 0
    ELSE IF lo = hi THEN v[lo]
    ELSE LET mid == (lo + hi) \div 2
         IN  SumRange(v, lo, mid) + SumRange(v, mid + 1, hi)

\* std::accumulate over a vector
SumSeq(v) == SumRange(v, 1, Len(v))

\* *std::max_element over a non-empty vector
MaxSeq(v) == CHOOSE m \in { v[i] : i \in 1..Len(v) } : \A i \in 1..Len(v) : v[i] <= m

\* ------------------------------------------------------------------------
\* loadModel
\* ------------------------------------------------------------------------
\* model_weights_[i] = sin(i * 0.1) * 0.5 + 0.5 for i < 1024, in thousandths
LoadedWeights ==
    << 500, 550, 599, 648, 695, 740, 782, 822, 859, 892, 921, 946, 966, 982, 993, 999,
       1000, 996, 987, 973, 955, 932, 904, 873, 838, 799, 758, 714, 667, 620, 571, 521,
       471, 421, 372, 325, 279, 235, 194, 156, 122, 91, 64, 42, 24, 11, 3, 0,
       2, 9, 21, 37, 58, 84, 114, 147, 184, 225, 268, 313, 360, 409, 458, 508,
       558, 608, 656, 702, 747, 789, 828, 864, 897, 925, 949, 969, 984, 994, 999, 999,
       995, 985, 970, 951, 927, 899, 867, 831, 792, 751, 706, 660, 611, 562, 512, 462,
       413, 364, 317, 271, 228, 187, 150, 116, 86, 60, 39, 22, 10, 2, 0, 3,
       10, 23, 40, 62, 89, 119, 153, 191, 232, 275, 321, 368, 417, 467, 517, 567,
       616, 664, 710, 754, 796, 835, 870, 902, 930, 953, 972, 986, 995, 1000, 999, 993,
       983, 967, 947, 923, 894, 861, 825, 786, 743, 698, 652, 603, 554, 504, 454, 405,
       356, 309, 264, 221, 181, 144, 111, 81, 56, 35, 19, 8, 2, 0, 4, 12,
       26, 44, 66, 93, 125, 159, 198, 239, 283, 329, 377, 426, 475, 525, 575, 624,
       672, 718, 762, 803, 841, 876, 907, 934, 956, 975, 988, 996, 1000, 998, 992, 981,
       964, 944, 918, 889, 856, 819, 779, 736, 691, 644, 595, 546, 496, 446, 396, 348,
       301, 256, 214, 175, 138, 106, 77, 52, 32, 17, 7, 1, 0, 5, 14, 28,
       47, 71, 98, 130, 166, 204, 246, 290, 337, 385, 434, 484, 534, 583, 632, 680,
       725, 769, 809, 847, 881, 912, 938, 960, 977, 990, 997, 1000, 998, 990, 978, 961,
       940, 914, 884, 850, 812, 772, 728, 683, 635, 587, 537, 487, 437, 388, 340, 294,
       249, 207, 168, 133, 100, 72, 49, 29, 15, 5, 1, 1, 6, 16, 31, 51,
       75, 103, 136, 172, 211, 253, 298, 345, 393, 442, 492, 542, 592, 640, 687, 733,
       776, 816, 853, 887, 916, 942, 963, 980, 991, 998, 1000, 997, 989, 976, 958, 936,
       909, 878, 844, 806, 765, 721, 675, 627, 578, 529, 479, 429, 380, 332, 286, 242,
       200, 162, 127, 95, 68, 45, 27, 13, 4, 0, 1, 7, 18, 34, 55, 80,
       109, 142, 178, 218, 261, 306, 353, 401, 451, 500, 550, 600, 648, 695, 740, 783,
       822, 859, 892, 921, 946, 966, 982, 993, 999, 1000, 996, 987, 973, 954, 931, 904,
       873, 837, 799, 757, 713, 667, 619, 570, 520, 470, 421, 372, 324, 278, 235, 194,
       156, 121, 91, 64, 42, 24, 11, 3, 0, 2, 9, 21, 37, 58, 84, 114,
       148, 185, 225, 268, 313, 361, 409, 459, 509, 559, 608, 656, 703, 747, 790, 829,
       865, 897, 925, 950, 969, 984, 994, 999, 999, 995, 985, 970, 951, 927, 899, 867,
       831, 792, 750, 706, 659, 611, 562, 512, 462, 412, 364, 316, 271, 228, 187, 150,
       116, 86, 60, 38, 22, 9, 2, 0, 3, 11, 23, 41, 62, 89, 119, 154,
       191, 232, 276, 321, 369, 418, 467, 517, 567, 616, 664, 710, 755, 796, 835, 870,
       902, 930, 953, 972, 986, 995, 1000, 999, 993, 983, 967, 947, 923, 894, 861, 825,
       785, 743, 698, 651, 603, 553, 504, 454, 404, 356, 309, 263, 221, 181, 144, 111,
       81, 56, 35, 19, 8, 2, 0, 4, 12, 26, 44, 67, 94, 125, 160, 198,
       239, 283, 329, 377, 426, 476, 526, 575, 624, 672, 718, 762, 803, 841, 876, 907,
       934, 957, 975, 988, 996, 1000, 998, 992, 980, 964, 943, 918, 889, 855, 818, 778,
       735, 690, 643, 595, 545, 495, 445, 396, 348, 301, 256, 214, 174, 138, 105, 77,
       52, 32, 17, 6, 1, 0, 5, 14, 28, 47, 71, 99, 130, 166, 205, 246,
       291, 337, 385, 434, 484, 534, 584, 632, 680, 726, 769, 810, 847, 882, 912, 938,
       960, 977, 990, 997, 1000, 998, 990, 978, 961, 939, 913, 883, 849, 812, 771, 728,
       682, 635, 586, 537, 487, 437, 388, 340, 293, 249, 207, 168, 132, 100, 72, 49,
       29, 15, 5, 0, 1, 6, 16, 31, 51, 75, 104, 136, 172, 212, 254, 298,
       345, 393, 443, 492, 542, 592, 641, 688, 733, 776, 816, 853, 887, 917, 942, 963,
       980, 991, 998, 1000, 997, 989, 976, 958, 935, 909, 878, 843, 805, 764, 720, 675,
       627, 578, 528, 478, 429, 380, 332, 286, 241, 200, 162, 127, 95, 68, 45, 27,
       13, 4, 0, 1, 7, 18, 34, 55, 80, 109, 142, 179, 218, 261, 306, 353,
       402, 451, 501, 551, 600, 649, 696, 740, 783, 823, 859, 892, 921, 946, 966, 982,
       993, 999, 1000, 996, 987, 973, 954, 931, 904, 872, 837, 799, 757, 713, 667, 619,
       570, 520, 470, 420, 371, 324, 278, 234, 193, 155, 121, 90, 64, 42, 24, 11,
       3, 0, 2, 9, 21, 37, 59, 84, 114, 148, 185, 225, 268, 314, 361, 410,
       459, 509, 559, 608, 657, 703, 748, 790, 829, 865, 897, 926, 950, 969, 984, 994,
       999, 999, 995, 985, 970, 951, 927, 899, 867, 831, 792, 750, 705, 659, 611, 561,
       511, 462, 412, 363, 316, 270, 227, 187, 149, 116, 86, 60, 38, 21, 9, 2,
       0, 3, 11, 23, 41, 63, 89, 120, 154, 192, 232, 276, 322, 369, 418, 468,
       518, 567, 617, 665, 711, 755, 797, 835, 871, 902, 930, 953, 972, 986, 995, 1000,
       999, 993, 983, 967, 947, 922, 894, 861, 824, 785, 742, 698, 651, 602, 553, 503,
       453, 404, 355, 308, 263, 220, 180, 143, 110, 81, 56, 35, 19, 8, 1, 0,
       4, 12, 26, 44, 67, 94, 125, 160, 198, 240, 284, 330, 377, 426, 476, 526,
       576, 625, 672, 718, 762, 803, 842, 876, 907, 934, 957, 975, 988, 996, 1000, 998,
       992, 980, 964, 943, 918, 888, 855, 818, 778, 735, 690, 643, 594, 545, 495, 445,
       395, 347, 300, 256, 213, 174, 138, 105, 76, 52, 32, 17, 6, 1, 0, 5,
       14, 29, 48, 71, 99, 131, 166, 205, 247, 291, 338, 386, 435, 485, 534, 584,
       633, 680, 726, 769, 810, 848, 882, 912, 938, 960, 977, 990, 997, 1000, 998, 990 >>

\* ------------------------------------------------------------------------
\* statisticalAnalysis
\* ------------------------------------------------------------------------
DetectionResult(detected, confidence, payload, seed, error_message) ==
    [ detected |-> detected, confidence |-> confidence, payload |-> payload,
      seed |-> seed, error_message |-> error_message ]

ZeroPayload == BytesOf(0, 8)
ZeroSeed == BytesOf(0, 4)

\* the average QP of every frame that has QP values, in frame order
QpPatterns(frames) ==
    LET HasQp(frame) == Len(frame.qp_values) > 0
        kept == SelectSeq(frames, HasQp)
    IN  [ i \in 1..Len(kept) |-> SumSeq(kept[i].qp_values) \div Len(kept[i].qp_values) ]

\* a corr that scores a lag by the squared differences it leaves
CorrAtDifference(p, lag) ==
    0 - SumSeq([ k \in 1..(Len(p) - lag) |-> (p[k] - p[k + lag]) * (p[k] - p[k + lag]) ])

\* corr at one lag: the sum over i < size - lag of p[i] * p[i + lag]
CorrAt(p, lag) ==
    SumSeq([ k \in 1..(Len(p) - lag) |-> p[k] * p[k + lag] ])

\* an autocorrelation loop that runs while lag <= size / 2
AutocorrInclusive(p) ==
    [ lag \in 1..(Len(p) \div 2) |-> CorrAt(p, lag) ]

\* the lags the loop visits: 1 <= lag < size / 2
Autocorr(p) ==
    [ lag \in 1..((Len(p) \div 2) - 1) |-> CorrAt(p, lag) ]

\* a statisticalAnalysis whose confidence is max_corr itself
StatisticalAnalysisUncapped(frames) ==
    IF Len(frames) < 10
    THEN DetectionResult(FALSE, 0, ZeroPayload, ZeroSeed,
                         "Insufficient frames for statistical analysis")
    ELSE LET qp_patterns == QpPatterns(frames)
             autocorr == Autocorr(qp_patterns)
             max_corr == MaxSeq(autocorr)
             found == Len(qp_patterns) >= 20 /\ 10 * max_corr > FeatureUnit * FeatureUnit
             confidence == IF found THEN 5 * max_corr ELSE 0
             payload == IF found
                        THEN BytesOf((max_corr \div 4) * 15625 + ((max_corr % 4) * 15625) \div 4, 8)
                        ELSE ZeroPayload
             seed == IF found THEN BytesOf(Len(autocorr), 4) ELSE ZeroSeed
         IN  DetectionResult(confidence > 640, confidence, payload, seed, "")

statisticalAnalysis(frames) ==
    IF Len(frames) < 10
    THEN DetectionResult(FALSE, 0, ZeroPayload, ZeroSeed,
                         "Insufficient frames for statistical analysis")
    ELSE LET qp_patterns == QpPatterns(frames)
             autocorr == Autocorr(qp_patterns)
             \* max_corr in 1/256; max_corr > 0.1 is 10 * max_corr > 256
             max_corr == MaxSeq(autocorr)
             found == Len(qp_patterns) >= 20 /\ 10 * max_corr > FeatureUnit * FeatureUnit
             confidence == IF found THEN Min(1024, 5 * max_corr) ELSE 0
             \* static_cast<uint64_t>(max_corr * 1000000), 1000000 / 256 = 15625 / 4
             payload == IF found
                        THEN BytesOf((max_corr \div 4) * 15625 + ((max_corr % 4) * 15625) \div 4, 8)
                        ELSE ZeroPayload
             seed == IF found THEN BytesOf(Len(autocorr), 4) ELSE ZeroSeed
         IN  DetectionResult(confidence > 640, confidence, payload, seed, "")

\* ------------------------------------------------------------------------
\* mlAnalysis
\* ------------------------------------------------------------------------
RECURSIVE Features(_, _, _)
\* qp_values, dct_coefficients, entropy, variance of each frame lo .. hi,
\* concatenated in frame order (by halves)
Features(frames, lo, hi) ==
    IF lo > hi THEN <<>>
    ELSE IF lo = hi
    THEN frames[lo].qp_values \o frames[lo].dct_coefficients
             \o << frames[lo].entropy, frames[lo].variance >>
    ELSE LET mid == (lo + hi) \div 2
         IN  Features(frames, lo, mid) \o Features(frames, mid + 1, hi)

\* the sum over i < n of features[i] * model_weights_[i], in 1/16000
Dot(features, weights, n) ==
    SumSeq([ i \in 1..n |-> features[i] * weights[i] ])

\* x (in 1/16000) at which tanh(x) * 0.5 + 0.5 reaches k / 20, k = 1 .. 19
TanhBreaks ==
    << -23556, -17578, -13877, -11090, -8789, -6778, -4952, -3244, -1605, 0,
       1605, 3244, 4952, 6778, 8789, 11090, 13877, 17578, 23556 >>

\* beyond these arguments the double result of tanh(x) * 0.5 + 0.5 is 1.0, 0.0
TanhSaturatesHigh == 296208
TanhSaturatesLow == -304992

\* std::tanh(x) alone, without the rescaling to [0, 1] and without the clamp
TanhUnnormalised(x) ==
    IF x = 0 THEN 0
    ELSE IF x >= TanhSaturatesHigh THEN ConfidenceUnit
    ELSE IF x <= TanhSaturatesLow THEN 0 - ConfidenceUnit
    ELSE 128 * Cardinality({ k \in 1..19 : x >= TanhBreaks[k] }) + 2 - ConfidenceUnit

\* std::tanh(x) * 0.5 + 0.5 clamped to [0, 1].  The value is exact at x = 0 and
\* where the double saturates; elsewhere it lies strictly between two
\* twentieths and is carried as the lower one plus 1/1280.
TanhConfidence(x) ==
    IF x = 0 THEN 640
    ELSE IF x >= TanhSaturatesHigh THEN ConfidenceUnit
    ELSE IF x <= TanhSaturatesLow THEN 0
    ELSE 64 * Cardinality({ k \in 1..19 : x >= TanhBreaks[k] }) + 1

RECURSIVE PackBytes(_, _, _, _)
\* acc |= static_cast<uintN_t>(features[i] * 255) << (i * 8), for i < n
PackBytes(features, n, len, mode) ==
    IF n = 0 THEN BytesOf(0, len)
    ELSE OrBytes(PackBytes(features, n - 1, len, mode),
                 ShlBytes(CastFeatureByte(features[n], len, mode), n - 1))

mlAnalysis(this, frames) ==
    IF Len(frames) = 0 \/ Len(this.model_weights_) = 0
    THEN DetectionResult(FALSE, 0, ZeroPayload, ZeroSeed,
                         "No frames or model available for ML analysis")
    ELSE LET features == Features(frames, 1, Len(frames))
             n == Min(Len(features), Len(this.model_weights_))
             confidence == TanhConfidence(Dot(features, this.model_weights_, n))
             payload == PackBytes(features, Min(Len(features), 8), 8, this.castMode)
             seed == PackBytes(features, Min(Len(features), 4), 4, this.castMode)
         IN  DetectionResult(confidence > 768, confidence, payload, seed, "")

\* ------------------------------------------------------------------------
\* Detector inputs
\* ------------------------------------------------------------------------
Pattern10 == << 0, 1, 2, 3, 4, 4, 3, 2, 1, 0 >>

Noise40 == << 1, -2, 0, 2, -1, -1, 2, 0, -2, 1, 0, 1, -1, 2, -2, 0, 1, 1, -2, 2,
              -1, 0, 2, -2, 1, -1, 0, 2, 1, -2, 0, -1, 2, 1, -2, 0, 2, -1, 1, -2 >>

FrameCounts == { 0, 5, 10, 20, 40 }

FrameOf(i, kind, amp, dct) ==
    [ frame_index |-> i,
      qp_values |-> IF kind = "flat" THEN << amp >>
                    ELSE IF kind = "periodic" THEN << amp * Pattern10[(i % 10) + 1] >>
                    ELSE IF kind = "noise" THEN << amp * Noise40[(i % 40) + 1] >>
                    ELSE << >>,
      dct_coefficients |-> IF kind = "empty" THEN << >> ELSE << dct >>,
      entropy |-> 0,
      variance |-> 0 ]

FramesOf(n, kind, amp, dct) == [ i \in 1..n |-> FrameOf(i - 1, kind, amp, dct) ]

FrameInputs ==
    { FramesOf(n, "flat", amp, dct) : n \in FrameCounts, amp \in {0, 1, 2, 3, 32}, dct \in {-16, 0} }
    \cup { FramesOf(n, kind, amp, 0) : n \in FrameCounts, kind \in {"periodic", "noise"}, amp \in {1, 16} }
    \cup { FramesOf(n, "empty", 0, 0) : n \in FrameCounts }

Thresholds == { 0, 384, 704, 896, 1024, 1280 }

ExtractionConfigs ==
    [ min_frames : {10, 30}, max_frames : {20}, confidence_threshold : Thresholds ]

\* the detector results for the inputs above, computed once
StatTable == [ frames \in FrameInputs |-> statisticalAnalysis(frames) ]

StatisticalAnalysis(frames) ==
    IF frames \in DOMAIN StatTable THEN StatTable[frames] ELSE statisticalAnalysis(frames)

MlTable ==
    [ mode \in CastModes |->
        [ frames \in FrameInputs |->
            mlAnalysis([model_weights_ |-> LoadedWeights, castMode |-> mode], frames) ] ]

MlAnalysis(this, frames) ==
    IF this.model_weights_ = LoadedWeights /\ frames \in DOMAIN MlTable[this.castMode]
    THEN MlTable[this.castMode][frames]
    ELSE mlAnalysis(this, frames)

\* ------------------------------------------------------------------------
\* extractWatermark
\* ------------------------------------------------------------------------
NoWatermark ==
    DetectionResult(FALSE, 0, ZeroPayload, ZeroSeed,
                    "No watermark detected with sufficient confidence")

\* an extractWatermark that asks the score-fusion detector first
ExtractWatermarkMlFirst(this, frames) ==
    LET stat_result == StatisticalAnalysis(frames)
        ml_result == MlAnalysis(this, frames)
    IN  IF ml_result.detected
           /\ ml_result.confidence >= this.config_.confidence_threshold
        THEN [result |-> ml_result, counted |-> 1]
        ELSE IF stat_result.detected
                /\ stat_result.confidence >= this.config_.confidence_threshold
        THEN [result |-> stat_result, counted |-> 1]
        ELSE [result |-> NoWatermark, counted |-> 0]

\* an extractWatermark that reports the larger of the two confidences
ExtractWatermarkMerged(this, frames) ==
    LET stat_result == StatisticalAnalysis(frames)
        ml_result == MlAnalysis(this, frames)
        best == IF ml_result.confidence > stat_result.confidence
                THEN ml_result.confidence ELSE stat_result.confidence
    IN  IF stat_result.detected
           /\ stat_result.confidence >= this.config_.confidence_threshold
        THEN [result |-> [stat_result EXCEPT !.confidence = best], counted |-> 1]
        ELSE IF ml_result.detected
                /\ ml_result.confidence >= this.config_.confidence_threshold
        THEN [result |-> ml_result, counted |-> 1]
        ELSE [result |-> NoWatermark, counted |-> 0]

\* an extractWatermark that counts every call
ExtractWatermarkCountsAlways(this, frames) ==
    LET stat_result == StatisticalAnalysis(frames)
        ml_result == MlAnalysis(this, frames)
    IN  IF stat_result.detected
           /\ stat_result.confidence >= this.config_.confidence_threshold
        THEN [result |-> stat_result, counted |-> 1]
        ELSE IF ml_result.detected
                /\ ml_result.confidence >= this.config_.confidence_threshold
        THEN [result |-> ml_result, counted |-> 1]
        ELSE [result |-> NoWatermark, counted |-> 1]

\* the returned DetectionResult and the increment of watermarks_detected_
extractWatermark(this, frames) ==
    LET stat_result == StatisticalAnalysis(frames)
        ml_result == MlAnalysis(this, frames)
    IN  IF stat_result.detected
           /\ stat_result.confidence >= this.config_.confidence_threshold
        THEN [result |-> stat_result, counted |-> 1]
        ELSE IF ml_result.detected
                /\ ml_result.confidence >= this.config_.confidence_threshold
        THEN [result |-> ml_result, counted |-> 1]
        ELSE [result |-> NoWatermark, counted |-> 0]

\* ------------------------------------------------------------------------
\* analyzeFrame, analyzeVideo
\* ------------------------------------------------------------------------
\* A cv::Mat is carried as its shape and, for its pixels, the features the
\* extract* and calculate* functions compute from them.
MatOf(content) == [ rows |-> 480, cols |-> 640, channels |-> 3, content |-> content ]

\* cv::Mat(): no rows, no columns, one channel
EmptyMat == [ rows |-> 0, cols |-> 0, channels |-> 1, content |-> FrameOf(0, "empty", 0, 0) ]

Mats ==
    { EmptyMat } \cup { MatOf(FrameOf(0, kind, 16, 0)) : kind \in {"flat", "empty"} }

AnalysisIndices == { 0, 7 }

\* cv::cvtColor and cv::resize raise cv::Exception on a source without
\* samples; otherwise the frame becomes a 720 x 720 one-channel double image
preprocessFrame(frame) ==
    IF frame.rows = 0 \/ frame.cols = 0
    THEN [ raised |-> TRUE, processed |-> frame ]
    ELSE [ raised |-> FALSE,
           processed |-> [frame EXCEPT !.rows = 720, !.cols = 720, !.channels = 1] ]

analyzeFrame(frame, frame_index) ==
    LET pre == preprocessFrame(frame)
    IN  IF pre.raised
        THEN [ raised |-> TRUE, analysis |-> [pre.processed.content EXCEPT !.frame_index = frame_index] ]
        ELSE [ raised |-> FALSE,
               analysis |-> [ frame_index |-> frame_index,
                              qp_values |-> pre.processed.content.qp_values,
                              dct_coefficients |-> pre.processed.content.dct_coefficients,
                              entropy |-> pre.processed.content.entropy,
                              variance |-> pre.processed.content.variance ] ]

\* a video file: whether cv::VideoCapture opens it, and the frames read() yields
VideoOf(frames) ==
    [ opened |-> TRUE, frames |-> [ i \in 1..Len(frames) |-> MatOf(frames[i]) ] ]

NoVideo == [ opened |-> FALSE, frames |-> <<>> ]

Videos ==
    { NoVideo }
    \cup { VideoOf(FramesOf(n, kind, 16, 0)) : n \in {5, 20, 40}, kind \in {"periodic", "noise"} }
    \cup { VideoOf(FramesOf(n, "flat", 0, 0)) : n \in {0, 40} }

\* the read loop: at most max_frames frames, each through analyzeFrame
FrameAnalyses(this, video) ==
    LET count == Min(Len(video.frames), this.config_.max_frames)
    IN  [ i \in 1..count |-> analyzeFrame(video.frames[i], i - 1).analysis ]

\* the returned DetectionResult and the increments of videos_processed_,
\* frames_analyzed_ and watermarks_detected_
analyzeVideo(this, video) ==
    IF ~this.initialized_
    THEN [ result |-> DetectionResult(FALSE, 0, ZeroPayload, ZeroSeed, "Extractor not initialized"),
           frames |-> <<>>, videos |-> 0, analyzed |-> 0, counted |-> 0 ]
    ELSE IF ~video.opened
    THEN [ result |-> DetectionResult(FALSE, 0, ZeroPayload, ZeroSeed, "Failed to open video file: "),
           frames |-> <<>>, videos |-> 0, analyzed |-> 0, counted |-> 0 ]
    ELSE LET frame_analyses == FrameAnalyses(this, video) IN
         IF Len(frame_analyses) < this.config_.min_frames
         THEN [ result |-> DetectionResult(FALSE, 0, ZeroPayload, ZeroSeed,
                               "Insufficient frames: " \o ToString(Len(frame_analyses))
                                   \o " < " \o ToString(this.config_.min_frames)),
                frames |-> frame_analyses, videos |-> 0, analyzed |-> 0, counted |-> 0 ]
         ELSE LET r == extractWatermark(this, frame_analyses)
              IN  [ result |-> r.result, frames |-> frame_analyses, videos |-> 1,
                    analyzed |-> Len(frame_analyses), counted |-> r.counted ]

\* ------------------------------------------------------------------------
\* Extractor state machine
\* ------------------------------------------------------------------------
\* the extractor object as the member functions see it
Extractor ==
    [ castMode |-> castMode, config_ |-> xconfig_, initialized_ |-> initialized_,
      model_weights_ |-> model_weights_, frames_analyzed_ |-> frames_analyzed_,
      videos_processed_ |-> videos_processed_,
      watermarks_detected_ |-> watermarks_detected_ ]

\* what a call left behind: the arguments, the value returned, and whether
\* the call ended by an exception instead of returning
XRet(op, frames, result) ==
    [op |-> op, frames |-> frames, result |-> result, raised |-> FALSE]

NoResult == DetectionResult(FALSE, 0, ZeroPayload, ZeroSeed, "")

\* WatermarkExtractor::WatermarkExtractor
ExtInit ==
    /\ xconfig_ \in ExtractionConfigs
    /\ initialized_ = FALSE
    /\ model_weights_ = <<>>
    /\ frames_analyzed_ = 0
    /\ videos_processed_ = 0
    /\ watermarks_detected_ = 0
    /\ xret = XRet("constructor", <<>>, NoResult)

\* WatermarkExtractor::initialize with loadModel
ExtractorInitialize ==
    /\ initialized_' = TRUE
    /\ model_weights_' = IF initialized_ THEN model_weights_ ELSE LoadedWeights
    /\ xret' = XRet("initialize", <<>>, NoResult)
    /\ UNCHANGED <<xconfig_, frames_analyzed_, videos_processed_, watermarks_detected_>>
    /\ UNCHANGED <<castMode, encVars, conVars>>

\* WatermarkExtractor::updateConfig
ExtractorUpdateConfig(config) ==
    /\ xconfig_' = config
    /\ xret' = XRet("updateConfig", <<>>, NoResult)
    /\ UNCHANGED <<initialized_, model_weights_, frames_analyzed_, videos_processed_,
                   watermarks_detected_>>
    /\ UNCHANGED <<castMode, encVars, conVars>>

\* WatermarkExtractor::extractWatermark
ExtractWatermark(frames) ==
    LET r == extractWatermark(Extractor, frames) IN
    /\ watermarks_detected_ + r.counted <= MaxDetected
    /\ watermarks_detected_' = watermarks_detected_ + r.counted
    /\ xret' = XRet("extractWatermark", frames, r.result)
    /\ UNCHANGED <<xconfig_, initialized_, model_weights_, frames_analyzed_,
                   videos_processed_>>
    /\ UNCHANGED <<castMode, encVars, conVars>>

\* WatermarkExtractor::analyzeFrame
AnalyzeFrame(frame, frame_index) ==
    LET a == analyzeFrame(frame, frame_index) IN
    /\ xret' = [ XRet("analyzeFrame", IF a.raised THEN <<>> ELSE << a.analysis >>, NoResult)
                   EXCEPT !.raised = a.raised ]
    /\ UNCHANGED <<xconfig_, initialized_, model_weights_, frames_analyzed_,
                   videos_processed_, watermarks_detected_>>
    /\ UNCHANGED <<castMode, encVars, conVars>>

\* WatermarkExtractor::analyzeVideo
AnalyzeVideo(video) ==
    LET r == analyzeVideo(Extractor, video) IN
    /\ videos_processed_ + r.videos <= MaxVideos
    /\ watermarks_detected_ + r.counted <= MaxDetected
    /\ videos_processed_' = videos_processed_ + r.videos
    /\ frames_analyzed_' = frames_analyzed_ + r.analyzed
    /\ watermarks_detected_' = watermarks_detected_ + r.counted
    /\ xret' = XRet("analyzeVideo", r.frames, r.result)
    /\ UNCHANGED <<xconfig_, initialized_, model_weights_>>
    /\ UNCHANGED <<castMode, encVars, conVars>>

\* ------------------------------------------------------------------------
\* updateConfig concurrent with getBlocksForFrame / processFrame
\* ------------------------------------------------------------------------
\* The member functions take no lock, so the loads and stores of the two
\* threads interleave; each step below is one load or store sequence that
\* the other thread can separate from the next.
ConcurrentConfigs ==
    { c \in Configs : c.block_density \in {3, DensityDen} /\ c.temporal_period \in {1, 30} }

ConcurrentDimensions == { <<20, 12>> }

ConfigFields == { "seed", "block_density", "temporal_period" }

NoUpdate(config) == [ pc |-> "idle", old |-> config, new |-> config, pending |-> {} ]

NoCall ==
    [ pc |-> "idle", op |-> "none", frame_index |-> <<0, 0>>, density |-> 0,
      blocks_per_frame |-> 0, i |-> 0, blocks |-> <<>> ]

\* updateConfig is entered with its argument
UpdateConfigBegin(config) ==
    /\ updater.pc = "idle"
    /\ total_blocks_ > 0
    /\ updater' = [ pc |-> "copy", old |-> config_, new |-> config, pending |-> ConfigFields ]
    /\ UNCHANGED <<castMode, encVars, extVars, caller>>

\* config_ = config, one member at a time
UpdateConfigCopy(field) ==
    /\ updater.pc = "copy"
    /\ field \in updater.pending
    /\ config_' = [config_ EXCEPT ![field] = updater.new[field]]
    /\ updater' = [updater EXCEPT !.pending = @ \ {field},
                                  !.pc = IF updater.pending = {field} THEN "generate" ELSE "copy"]
    /\ UNCHANGED <<width_, height_, total_blocks_, block_indices_, current_block_index_,
                   frames_processed_, blocks_modified_, ret, memo>>
    /\ UNCHANGED <<castMode, extVars, caller>>

\* generateBlockSelection() at the end of updateConfig
UpdateConfigGenerate ==
    /\ updater.pc = "generate"
    /\ block_indices_' = generateBlockSelection(Encoder)
    /\ current_block_index_' = 0
    /\ updater' = [updater EXCEPT !.pc = "done"]
    /\ UNCHANGED <<config_, width_, height_, total_blocks_,
                   frames_processed_, blocks_modified_, ret, memo>>
    /\ UNCHANGED <<castMode, extVars, caller>>

\* getBlocksForFrame is entered, directly or from processFrame
GetBlocksBegin(op, frame_index) ==
    /\ caller.pc = "idle"
    /\ total_blocks_ > 0
    /\ caller' = [NoCall EXCEPT !.pc = "density", !.op = op, !.frame_index = frame_index]
    /\ UNCHANGED <<castMode, encVars, extVars, updater>>

\* the load of config_.block_density
GetBlocksLoadDensity ==
    /\ caller.pc = "density"
    /\ caller' = [caller EXCEPT !.pc = "count", !.density = config_.block_density]
    /\ UNCHANGED <<castMode, encVars, extVars, updater>>

\* the load of config_.temporal_period, the division, the cast and std::min
GetBlocksCount ==
    /\ caller.pc = "count"
    /\ caller' = [caller EXCEPT !.pc = "loop",
                     !.blocks_per_frame = blocksPerFrame(total_blocks_, caller.density,
                                                         config_.temporal_period, castMode)]
    /\ UNCHANGED <<castMode, encVars, extVars, updater>>

\* one iteration of the loop, with the configuration as it is now
GetBlocksIterate ==
    /\ caller.pc = "loop"
    /\ caller.i < caller.blocks_per_frame
    /\ caller' = [caller EXCEPT !.i = @ + 1,
                     !.blocks = Append(@, BlockAt(Encoder, caller.i, caller.frame_index))]
    /\ UNCHANGED <<castMode, encVars, extVars, updater>>

\* the loop ends; getBlocksForFrame returns, and processFrame counts
GetBlocksReturn ==
    /\ caller.pc = "loop"
    /\ caller.i >= caller.blocks_per_frame
    /\ caller' = [caller EXCEPT !.pc = "done"]
    /\ ret' = Ret(caller.op, TRUE, caller.frame_index, caller.blocks, <<>>)
    /\ blocks_modified_' =
           blocks_modified_ + (IF caller.op = "processFrame" THEN Len(caller.blocks) ELSE 0)
    /\ frames_processed_' =
           frames_processed_ + (IF caller.op = "processFrame" THEN 1 ELSE 0)
    /\ UNCHANGED <<config_, width_, height_, total_blocks_, block_indices_,
                   current_block_index_, memo>>
    /\ UNCHANGED <<castMode, extVars, updater>>

\* ------------------------------------------------------------------------
\* Specifications
\* ------------------------------------------------------------------------
vars == <<castMode, encVars, extVars, conVars>>

\* an extractor that is constructed and left alone
ExtIdle ==
    /\ xconfig_ = [min_frames |-> 10, max_frames |-> 20, confidence_threshold |-> 896]
    /\ initialized_ = FALSE
    /\ model_weights_ = <<>>
    /\ frames_analyzed_ = 0
    /\ videos_processed_ = 0
    /\ watermarks_detected_ = 0
    /\ xret = XRet("constructor", <<>>, NoResult)

\* an encoder that is constructed and left alone
EncIdle ==
    /\ config_ = [seed |-> <<0, 12345>>, block_density |-> 3, temporal_period |-> 30]
    /\ width_ = 0
    /\ height_ = 0
    /\ total_blocks_ = 0
    /\ block_indices_ = <<>>
    /\ current_block_index_ = 0
    /\ frames_processed_ = 0
    /\ blocks_modified_ = 0
    /\ ret = Ret("constructor", TRUE, <<0, 0>>, <<>>, <<>>)
    /\ memo = NoMemo

\* no thread is inside the encoder
IdleConfig == [ seed |-> <<0, 12345>>, block_density |-> 3, temporal_period |-> 30 ]

ConIdle == updater = NoUpdate(IdleConfig) /\ caller = NoCall

Init == castMode \in CastModes /\ EncInit /\ ExtIdle /\ ConIdle

Next ==
    \/ \E d \in Dimensions : initialize(d[1], d[2])
    \/ \E c \in Configs : updateConfig(c)
    \/ \E f \in FrameIndices : GetBlocks(f)
    \/ \E b \in Buffers, f \in FrameIndices : processFrame(b, f)

\* the encoder
Spec == Init /\ [][Next]_vars

ExtractorInit == castMode \in CastModes /\ ExtInit /\ EncIdle /\ ConIdle

ExtractorNext ==
    \/ ExtractorInitialize
    \/ \E c \in ExtractionConfigs : ExtractorUpdateConfig(c)
    \/ \E frames \in FrameInputs : ExtractWatermark(frames)
    \/ \E frame \in Mats, i \in AnalysisIndices : AnalyzeFrame(frame, i)
    \/ \E video \in Videos : AnalyzeVideo(video)

\* the extractor
ExtractorSpec == ExtractorInit /\ [][ExtractorNext]_vars

\* initialize, called before the threads start
InitializeOnce(width, height) ==
    /\ total_blocks_ = 0
    /\ updater.pc = "idle"
    /\ caller.pc = "idle"
    /\ initialize(width, height)

ConcurrentInit ==
    /\ castMode \in CastModes
    /\ EncInit
    /\ config_ \in ConcurrentConfigs
    /\ ExtIdle
    /\ updater = NoUpdate(config_)
    /\ caller = NoCall

ConcurrentNext ==
    \/ \E d \in ConcurrentDimensions : InitializeOnce(d[1], d[2])
    \/ \E c \in ConcurrentConfigs : UpdateConfigBegin(c)
    \/ \E field \in ConfigFields : UpdateConfigCopy(field)
    \/ UpdateConfigGenerate
    \/ \E op \in {"getBlocksForFrame", "processFrame"}, f \in FrameIndices :
           GetBlocksBegin(op, f)
    \/ GetBlocksLoadDensity
    \/ GetBlocksCount
    \/ GetBlocksIterate
    \/ GetBlocksReturn

\* one updateConfig and one getBlocksForFrame / processFrame on two threads
ConcurrentSpec == ConcurrentInit /\ [][ConcurrentNext]_vars

\* ------------------------------------------------------------------------
\* Properties of the encoder
\* ------------------------------------------------------------------------
ValidConfig(c) ==
    /\ c.block_density > 0
    /\ c.block_density <= DensityDen
    /\ c.temporal_period >= 1

IsBlocksCall == ret.op \in {"getBlocksForFrame", "processFrame"}

\* the linear block index a returned BlockInfo stands for
IndexOf(b) == (b.y \div BlockSize) * blocks_x(width_) + (b.x \div BlockSize)

\* C4: a getBlocksForFrame call with the frame index of an earlier call, with no
\* initialize or updateConfig since, returns the sequence the earlier call
\* returned, whatever getBlocksForFrame and processFrame calls came between.
C4_SameFrameSameBlocks ==
    (memo.valid /\ IsBlocksCall /\ ret.frame = memo.frame) => ret.blocks = memo.blocks

C4_Witness ==
    /\ memo.valid
    /\ memo.at < frames_processed_
    /\ ret.op = "getBlocksForFrame"
    /\ ret.frame = memo.frame
    /\ Len(ret.blocks) > 1

\* C5: the block selected at position i of a frame's list is the permutation
\* entry at (offset + i), the offset being (frameIndex mod temporalPeriod)
\* times some stride.
C5_SelectionFollowsPermutation ==
    (IsBlocksCall /\ total_blocks_ > 0 /\ ValidConfig(config_)) =>
        \E stride \in 0..(total_blocks_ - 1) :
            \A i \in 1..Len(ret.blocks) :
                IndexOf(ret.blocks[i]) =
                    block_indices_[((Mod32(ret.frame, config_.temporal_period) * stride
                                     + (i - 1)) % total_blocks_) + 1]

\* C6: initialize with a zero width or a zero height fails.
C6_ZeroDimensionsRejected ==
    (ret.op = "initialize" /\ (width_ = 0 \/ height_ = 0)) => ~ret.ok

\* C7: a configuration with blockDensity outside (0,1] or temporalPeriod < 1
\* is never the active configuration.
C7_InvalidConfigNeverInstalled == ValidConfig(config_)

\* C8: with a valid configuration and non-zero dimensions every frame gets at
\* least one instruction.
C8_BlocksNeverEmpty ==
    (IsBlocksCall /\ ValidConfig(config_) /\ width_ > 0 /\ height_ > 0) =>
        Len(ret.blocks) > 0

\* C9: block_indices_ has length total_blocks_ and holds every block index
\* below total_blocks_ exactly once.
C9_PermutationIsBijection ==
    /\ Len(block_indices_) = total_blocks_
    /\ \A k \in 0..(total_blocks_ - 1) :
          Cardinality({ i \in 1..Len(block_indices_) : block_indices_[i] = k }) = 1

C9_Witness ==
    /\ ret.op = "updateConfig"
    /\ total_blocks_ = 64
    /\ \E i \in 1..Len(block_indices_) : block_indices_[i] # i - 1

\* C10: for a valid configuration the number of instructions for a frame is
\* at most total_blocks_.
C10_AtMostTotalBlocks ==
    (IsBlocksCall /\ ValidConfig(config_)) => Len(ret.blocks) <= total_blocks_

C10_Witness ==
    /\ IsBlocksCall
    /\ config_.block_density = DensityDen
    /\ config_.temporal_period = 1
    /\ total_blocks_ > 0
    /\ Len(ret.blocks) = total_blocks_

\* C11: every instruction returned for a frame has qp_delta in {-1, 0, +1},
\* also where block_index * 31 + frame_index * 17 + seed wraps around 2^32.
C11_PerturbationInRange ==
    IsBlocksCall => \A i \in 1..Len(ret.blocks) : ret.blocks[i].qp_delta \in {-1, 0, 1}

C11_Witness ==
    /\ ret.op = "getBlocksForFrame"
    /\ ret.frame = << HalfWord - 1, HalfWord - 1 >>
    /\ config_.seed = << HalfWord - 1, HalfWord - 1 >>
    /\ { ret.blocks[i].qp_delta : i \in 1..Len(ret.blocks) } = {-1, 0, 1}

\* C12: with width >= 1 and height >= 1 every instruction's x and y are the
\* column and the row of some block index below total_blocks_, times 8, and
\* lie inside the frame.
C12_CoordinatesInsideFrame ==
    (IsBlocksCall /\ width_ >= 1 /\ height_ >= 1) =>
        \A i \in 1..Len(ret.blocks) :
            /\ \E index \in 0..(total_blocks_ - 1) :
                  /\ ret.blocks[i].x = (index % blocks_x(width_)) * BlockSize
                  /\ ret.blocks[i].y = (index \div blocks_x(width_)) * BlockSize
            /\ ret.blocks[i].x >= 0 /\ ret.blocks[i].x < width_
            /\ ret.blocks[i].y >= 0 /\ ret.blocks[i].y < height_

C12_Witness ==
    /\ IsBlocksCall
    /\ width_ = 20
    /\ height_ = 12
    /\ \E i \in 1..Len(ret.blocks) : ret.blocks[i].x = 16 /\ ret.blocks[i].y = 8

\* the densities a valid configuration can carry
ValidDensities == { d \in Densities : d > 0 /\ d <= DensityDen }

\* the number of instructions the same call returns under another density
CountUnder(density) ==
    Len(getBlocksForFrame([Encoder EXCEPT !.config_.block_density = density], ret.frame))

C14_ZeroBlocksEmptyList ==
    (IsBlocksCall /\ total_blocks_ = 0) => (ret.ok /\ ret.blocks = <<>>)

C14_Witness ==
    /\ ret.op = "processFrame"
    /\ total_blocks_ = 0
    /\ config_.temporal_period = 0
    /\ config_.block_density = DensityDen
    /\ frames_processed_ = 1
    /\ blocks_modified_ = 0

\* the set of block coordinates of a list of instructions
CoordSet(blocks) == { << blocks[i].x, blocks[i].y >> : i \in 1..Len(blocks) }

\* C18: the frame temporal_period later gets the same set of block
\* coordinates.
C18_PositionsCycleWithPeriod ==
    (IsBlocksCall /\ ValidConfig(config_) /\ total_blocks_ > 0) =>
        CoordSet(getBlocksForFrame(Encoder,
                     Add32(ret.frame, ToWord(config_.temporal_period))))
            = CoordSet(ret.blocks)

\* block_indices_ of an encoder just constructed with this seed and
\* initialized to these dimensions
FreshPermutation(seed, width, height) ==
    generateBlockSelection([ config_ |-> [seed |-> seed],
                             total_blocks_ |-> blocks_x(width) * blocks_y(height),
                             block_indices_ |-> <<>> ])

\* C19: block_indices_ is always the permutation a fresh encoder with the
\* current seed and dimensions holds, whatever calls came before.
C19_PermutationFromSeedOnly ==
    block_indices_ = FreshPermutation(config_.seed, width_, height_)

C19_Witness ==
    /\ ret.op = "updateConfig"
    /\ frames_processed_ = 1
    /\ total_blocks_ = 64
    /\ block_indices_ # [i \in 1..64 |-> i - 1]

\* C20 as stated: a getBlocksForFrame call that returns instructions under a
\* valid configuration increments blocks_modified_ and changes nothing else.
C20_GetBlocksCountsBlocks ==
    [][(ret'.op = "getBlocksForFrame" /\ Len(ret'.blocks) > 0 /\ ValidConfig(config_)) =>
          /\ blocks_modified_' > blocks_modified_
          /\ UNCHANGED <<config_, width_, height_, total_blocks_, block_indices_>>]_vars

\* C20: a getBlocksForFrame call changes no member of the encoder;
\* blocks_modified_ grows only in processFrame, by the number of instructions
\* of the frame, together with frames_processed_.
C20_OnlyProcessFrameCounts ==
    [][/\ ret'.op = "getBlocksForFrame" =>
             UNCHANGED <<config_, width_, height_, total_blocks_, block_indices_,
                         current_block_index_, frames_processed_, blocks_modified_>>
       /\ ret'.op = "processFrame" =>
             /\ blocks_modified_' = blocks_modified_ + Len(ret'.blocks)
             /\ frames_processed_' = frames_processed_ + 1
             /\ UNCHANGED <<config_, width_, height_, total_blocks_, block_indices_,
                            current_block_index_>>]_vars

C20_Witness ==
    /\ ret.op = "getBlocksForFrame"
    /\ Len(ret.blocks) > 0
    /\ frames_processed_ = 1
    /\ blocks_modified_ = Len(ret.blocks)

\* the frame indices a window starts at
WindowStarts == { 0, 1, 45 }

\* the number of instructions getBlocksForFrame lists for frame start + j and
\* the set of their block indices
WindowFrame(start, j) ==
    LET blocks == getBlocksForFrame(Encoder, ToWord(start + j))
    IN  [ count |-> Len(blocks),
          indices |-> { IndexOf(blocks[i]) : i \in 1..Len(blocks) } ]

BlocksUnder(config) ==
    getBlocksForFrame([Encoder EXCEPT !.config_ = config], caller.frame_index)

\* C22: the list a call returns while updateConfig runs is the list for the
\* old or for the new configuration, and processFrame's counts are not lost.
C22_OldOrNewSnapshot ==
    caller.pc = "done" =>
        /\ ret.blocks \in { BlocksUnder(updater.old), BlocksUnder(updater.new) }
        /\ caller.op = "processFrame" =>
               (frames_processed_ = 1 /\ blocks_modified_ = Len(ret.blocks))

\* ------------------------------------------------------------------------
\* Properties of the extractor
\* ------------------------------------------------------------------------
IsExtract == xret.op = "extractWatermark"

\* what each detector makes of the frames of the last extractWatermark call
StatResult == StatisticalAnalysis(xret.frames)
MlResult == MlAnalysis(Extractor, xret.frames)

ReachesThreshold(r) == r.confidence >= xconfig_.confidence_threshold

Qualifies(r) == r.detected /\ ReachesThreshold(r)

\* C1: extractWatermark on fewer frames than the minimum frame count returns
\* detected = false, a non-empty diagnostic and confidence 0.
C1_ShortSequenceAbstains ==
    (IsExtract /\ Len(xret.frames) < xconfig_.min_frames) =>
        /\ ~xret.result.detected
        /\ xret.result.error_message # ""
        /\ xret.result.confidence = 0

\* C2 as stated: whenever the periodicity detector's confidence reaches the
\* threshold, extractWatermark returns the periodicity detector's result.
C2_PeriodicityAtThresholdReturned ==
    (IsExtract /\ ReachesThreshold(StatResult)) => xret.result = StatResult

\* C2 amended: whenever the periodicity detector reports detected and its
\* confidence reaches the threshold, extractWatermark returns the periodicity
\* detector's result (confidence, payload, seed) and not the score-fusion one.
C2_DetectedPeriodicityReturned ==
    (IsExtract /\ Qualifies(StatResult)) => xret.result = StatResult

C2_Witness ==
    /\ IsExtract
    /\ Qualifies(StatResult)
    /\ Qualifies(MlResult)
    /\ MlResult.confidence > StatResult.confidence
    /\ xret.result = StatResult

\* C3 as stated: the result is one detector's result unchanged or the negative
\* result, and it is the negative result exactly when neither detector's
\* confidence reaches the threshold.
C3_NegativeIffBelowThreshold ==
    IsExtract =>
        /\ xret.result \in { StatResult, MlResult, NoWatermark }
        /\ (xret.result = NoWatermark) <=>
               (~ReachesThreshold(StatResult) /\ ~ReachesThreshold(MlResult))

\* C3 amended: the result is one detector's result unchanged or the negative
\* result, and it is the negative result exactly when neither detector both
\* reports detected and has a confidence that reaches the threshold.
C3_OneResultSurfaced ==
    IsExtract =>
        /\ xret.result \in { StatResult, MlResult, NoWatermark }
        /\ (xret.result = NoWatermark) <=> (~Qualifies(StatResult) /\ ~Qualifies(MlResult))

C3_Witness ==
    /\ IsExtract
    /\ xret.result = MlResult
    /\ StatResult.confidence > 0
    /\ StatResult.confidence # MlResult.confidence
    /\ watermarks_detected_ > 0

\* C15: the confidence of statisticalAnalysis, of mlAnalysis and of
\* extractWatermark lies in [0, 1] for every input sequence.
C15_ConfidenceInUnitInterval ==
    IsExtract =>
        /\ StatResult.confidence \in 0..ConfidenceUnit
        /\ MlResult.confidence \in 0..ConfidenceUnit
        /\ xret.result.confidence \in 0..ConfidenceUnit

C15_Witness ==
    /\ IsExtract
    /\ initialized_
    /\ xret.frames = FramesOf(40, "flat", 0, 0)
    /\ StatResult.confidence = 0
    /\ MlResult.confidence = ConfidenceUnit \div 2

\* the 40-frame sequences whose QP aggregate is the aperiodic noise
NoiseInputs == { FramesOf(40, "noise", amp, 0) : amp \in {1, 16} }

\* C16: on 40 aggregate values of aperiodic noise statisticalAnalysis reports
\* detected = false with a confidence below 0.7.
C16_NoiseNotDetected ==
    (IsExtract /\ xret.frames \in NoiseInputs) =>
        (~StatResult.detected /\ 10 * StatResult.confidence < 7 * ConfidenceUnit)

\* the 40-frame sequences whose QP aggregate repeats exactly every 10 frames
PeriodicInputs == { FramesOf(40, "periodic", amp, 0) : amp \in {1, 16} }

\* C17: on 40 aggregate values that repeat exactly with period 10
\* statisticalAnalysis reports detected = true with a confidence of at least 0.7.
C17_PeriodicDetected ==
    (IsExtract /\ xret.frames \in PeriodicInputs) =>
        (StatResult.detected /\ 10 * StatResult.confidence >= 7 * ConfidenceUnit)

C17_Witness ==
    /\ IsExtract
    /\ xret.frames = FramesOf(40, "periodic", 16, 0)
    /\ StatResult.detected
    /\ xret.result = StatResult

\* C21: analyzeFrame returns a FrameAnalysis for every frame, the frame
\* without samples included; it never ends by an exception.
C21_EmptyFrameAnalysed ==
    xret.op = "analyzeFrame" =>
        (~xret.raised /\ Len(xret.frames) = 1 /\ xret.frames[1].frame_index \in AnalysisIndices)

\* the feature vector mlAnalysis builds for the frames of the last call
CallFeatures == Features(xret.frames, 1, Len(xret.frames))

\* C23: byte i of the payload (i < 8) and of the seed (i < 4) is the byte
\* feature i alone packs into it, and 0 where there is no feature i.
C23_PayloadBytesDisjoint ==
    (/\ IsExtract
     /\ Len(model_weights_) > 0
     /\ Len(xret.frames) > 0
     /\ \A i \in 1..Min(8, Len(CallFeatures)) : CallFeatures[i] >= 0) =>
        /\ \A i \in 1..8 :
              MlResult.payload[i] =
                  IF i <= Len(CallFeatures)
                  THEN ((CallFeatures[i] * 255) \div FeatureUnit) % 256 ELSE 0
        /\ \A i \in 1..4 :
              MlResult.seed[i] =
                  IF i <= Len(CallFeatures)
                  THEN ((CallFeatures[i] * 255) \div FeatureUnit) % 256 ELSE 0

\* the QP aggregates statisticalAnalysis works on for the last call
CallPattern == QpPatterns(xret.frames)

\* the largest corr over the lags 1 .. last, as a confidence
StrengthUpTo(last) ==
    Min(1024, 5 * MaxSeq([ lag \in 1..last |-> CorrAt(CallPattern, lag) ]))

\* C24 as stated: the lags examined are 1 .. n/2, lag n/2 included, and the
\* seed guess of a detection is their number.
C24_LagsUpToHalf ==
    (IsExtract /\ Len(CallPattern) >= 20 /\ StatResult.confidence > 0) =>
        /\ StatResult.seed = BytesOf(Len(CallPattern) \div 2, 4)
        /\ StatResult.confidence = StrengthUpTo(Len(CallPattern) \div 2)

\* C24: the lags examined are 1 .. n/2 - 1 (lag n/2 is not examined), the
\* confidence comes from the largest corr over them, and the seed guess of a
\* detection is their number, n/2 - 1.
C24_LagsBelowHalf ==
    (IsExtract /\ Len(CallPattern) >= 20 /\ StatResult.confidence > 0) =>
        /\ StatResult.seed = BytesOf((Len(CallPattern) \div 2) - 1, 4)
        /\ StatResult.confidence = StrengthUpTo((Len(CallPattern) \div 2) - 1)

C24_Witness ==
    /\ IsExtract
    /\ xret.frames = FramesOf(20, "periodic", 16, 0)
    /\ StatResult.detected
    /\ StatResult.seed = BytesOf(9, 4)

\* a DetectionResult that agrees with itself, the threshold and the detectors
ConsistentResult(r, threshold, stat, ml) ==
    /\ r.detected => (r.confidence >= threshold /\ r \in {stat, ml})
    /\ ~r.detected => (r.confidence = 0 /\ r.payload = ZeroPayload /\ r.seed = ZeroSeed)

\* C26: the result of extractWatermark is consistent, and
\* watermarks_detected_ grows by one exactly when the result is detected.
C26_ResultConsistent ==
    [][xret'.op = "extractWatermark" =>
          /\ ConsistentResult(xret'.result, xconfig_.confidence_threshold,
                              StatisticalAnalysis(xret'.frames),
                              MlAnalysis(Extractor, xret'.frames))
          /\ watermarks_detected_' =
                 watermarks_detected_ + (IF xret'.result.detected THEN 1 ELSE 0)]_vars

C26_Witness ==
    /\ IsExtract
    /\ xret.result.detected
    /\ xret.result = MlResult
    /\ watermarks_detected_ = 2

\* C27: while initialize has not run, analyzeVideo and extractWatermark
\* return detected = false and the three counters stay at zero.
C27_UninitializedDetectsNothing ==
    (~initialized_ /\ xret.op \in {"analyzeVideo", "extractWatermark"}) =>
        /\ ~xret.result.detected
        /\ frames_analyzed_ = 0
        /\ videos_processed_ = 0
        /\ watermarks_detected_ = 0

\* C28: watermarks_detected_ never exceeds videos_processed_.
C28_DetectionsWithinVideos == watermarks_detected_ <= videos_processed_

\* C29: the confidence of statisticalAnalysis is 0 or in (0.1, 0.8], detected
\* needs a confidence above 0.5, and with a threshold above 0.8
\* extractWatermark does not return the result of statisticalAnalysis.
C29_PeriodicityConfidenceCapped ==
    IsExtract =>
        /\ \/ StatResult.confidence = 0
           \/ (10 * StatResult.confidence > ConfidenceUnit /\ StatResult.confidence <= 1024)
        /\ StatResult.detected => 2 * StatResult.confidence > ConfidenceUnit
        /\ xconfig_.confidence_threshold > 1024 => xret.result # StatResult

C29_Witness ==
    /\ IsExtract
    /\ xconfig_.confidence_threshold = ConfidenceUnit
    /\ StatResult.detected
    /\ StatResult.confidence = 1024
    /\ xret.result # StatResult

====
